---- MODULE Spec2Model ----
(***************************************************************************)
(* A model of src/tutosv.py: one Streamlit script file that holds two      *)
(* dashboards one after the other.  A render pass runs the script from the *)
(* top: the first dashboard (lines 5-93) loads the CSV with its own        *)
(* load_data and draws the gender charts, then the second dashboard        *)
(* (lines 96-292) loads the CSV again with a second load_data that         *)
(* renames the academic-year column, checks the key columns and draws      *)
(* five more charts.                                                       *)
(*                                                                         *)
(* Text (column headers, cell values) is a sequence of tokens: words and   *)
(* single whitespace characters.  Two texts are the same Python string     *)
(* exactly when they are the same sequence.                                *)
(***************************************************************************)
EXTENDS Integers, Sequences, FiniteSets

\* ------------------------------------------------------------------ bounds

\* Rows of a fetched CSV.
MaxRows == 2
\* Whitespace characters between "Bachelor" and "Academic Year in EU" in a
\* header variant.
MaxWs == 2

\* ------------------------------------------------------- program constants

COL_SSC_GPA == <<"S.S.C", " ", "(GPA)">>
COL_HSC_GPA == <<"H.S.C", " ", "(GPA)">>
COL_GENDER == <<"Gender">>
\* 'Bachelor \tAcademic Year in EU'
COL_ACADEMIC_YEAR_RAW ==
    <<"Bachelor", " ", "\t", "Academic", " ", "Year", " ", "in", " ", "EU">>
\* 'Bachelor Academic Year in EU', the literal of the elif branch
COL_ACADEMIC_YEAR_SPACE ==
    <<"Bachelor", " ", "Academic", " ", "Year", " ", "in", " ", "EU">>
\* 'Academic Year', the key the column is renamed to
COL_ACADEMIC_YEAR == <<"Academic", " ", "Year">>
ACADEMIC_ORDER ==
    << <<"1st", " ", "Year">>, <<"2nd", " ", "Year">>,
       <<"3rd", " ", "Year">>, <<"4th", " ", "Year">> >>
\* the 3.00 of df[COL_SSC_GPA] > 3.00, in hundredths of a grade point
GPA_THRESHOLD == 300

\* An empty CSV field: pd.read_csv reads it as NaN.
NaN == <<>>
\* pd.DataFrame()
EmptyDataFrame == [columns |-> {}, rows |-> <<>>]

\* ------------------------------------------------------------ text helpers

Range(s) == {s[i] : i \in DOMAIN s}

Whitespace == {" ", "\t"}

\* The tokens of the cell values, in the order of their first characters'
\* code points: Python compares strings by code point.
TokenOrder == <<"\t", " ", "1st", "2nd", "3rd", "4th", "Female", "Male", "Year">>

TokenRank(tok) == CHOOSE i \in DOMAIN TokenOrder : TokenOrder[i] = tok

RECURSIVE TextLess(_, _)
TextLess(a, b) ==
    IF a = <<>> THEN b # <<>>
    ELSE IF b = <<>> THEN FALSE
    ELSE IF Head(a) = Head(b) THEN TextLess(Tail(a), Tail(b))
    ELSE TokenRank(Head(a)) < TokenRank(Head(b))

\* The texts of S in ascending order.
RECURSIVE SortedTexts(_)
SortedTexts(S) ==
    IF S = {} THEN <<>>
    ELSE LET m == CHOOSE x \in S : \A y \in S \ {x} : TextLess(x, y)
         IN  <<m>> \o SortedTexts(S \ {m})

\* ------------------------------------------------------ dataframe helpers

\* df[col]: the column's values in row order.
Column(t, col) == [i \in DOMAIN t.rows |-> t.rows[i][col]]

\* df.empty: no rows or no columns.
IsEmpty(t) == t.columns = {} \/ t.rows = <<>>

\* df.rename(columns={old: new}, inplace=True)
Rename(t, old, new) ==
    LET cols == (t.columns \ {old}) \cup {new}
    IN  [columns |-> cols,
         rows |-> [i \in DOMAIN t.rows |->
                      [c \in cols |-> IF c = new THEN t.rows[i][old]
                                      ELSE t.rows[i][c]]]]

\* --------------------------------------------------------------- pandas

\* The non-null values of a column, in row order.
DropNa(s) == SelectSeq(s, LAMBDA v : v # NaN)

\* The distinct values of s in the order of their first occurrence.
RECURSIVE Unique(_)
Unique(s) ==
    IF s = <<>> THEN <<>>
    ELSE <<Head(s)>> \o Unique(SelectSeq(Tail(s), LAMBDA v : v # Head(s)))

Occurrences(s, v) == Cardinality({i \in DOMAIN s : s[i] = v})

\* Insert pair p into a list of <<value, count>> pairs held in descending
\* count order, after the pairs of the same count.
RECURSIVE InsertByCount(_, _)
InsertByCount(p, sorted) ==
    IF sorted = <<>> THEN <<p>>
    ELSE IF Head(sorted)[2] >= p[2]
         THEN <<Head(sorted)>> \o InsertByCount(p, Tail(sorted))
         ELSE <<p>> \o sorted

RECURSIVE SortByCount(_)
SortByCount(pairs) ==
    IF pairs = <<>> THEN <<>>
    ELSE InsertByCount(Head(pairs), SortByCount(Tail(pairs)))

\* value_counts(dropna=False): NaN kept as a category.
value_counts_keepna(s) ==
    LET u == Unique(s)
    IN  SortByCount([i \in DOMAIN u |-> <<u[i], Occurrences(s, u[i])>>])

\* Series.value_counts().reset_index(): one <<value, count>> pair per
\* distinct non-null value, the most frequent first.
value_counts(s) ==
    LET vals == DropNa(s)
        u == Unique(vals)
    IN  SortByCount([i \in DOMAIN u |-> <<u[i], Occurrences(vals, u[i])>>])

\* The rows of t whose two key cells are both non-null: groupby drops a
\* row with a NaN key.
KeyedRows(t, a, b) ==
    SelectSeq(t.rows, LAMBDA r : r[a] # NaN /\ r[b] # NaN)

CountRows(rows, a, va, b, vb) ==
    Cardinality({i \in DOMAIN rows : rows[i][a] = va /\ rows[i][b] = vb})

\* df.groupby([a, b]).size().reset_index(name='Count'): one
\* <<va, vb, count>> triple per observed combination, in key order.
groupby_size(t, a, b) ==
    LET rows == KeyedRows(t, a, b)
        as == SortedTexts({rows[i][a] : i \in DOMAIN rows})
        bs == SortedTexts({rows[i][b] : i \in DOMAIN rows})
        all == [k \in 1..(Len(as) * Len(bs)) |->
                   LET va == as[((k - 1) \div Len(bs)) + 1]
                       vb == bs[((k - 1) % Len(bs)) + 1]
                   IN  <<va, vb, CountRows(rows, a, va, b, vb)>>]
    IN  SelectSeq(all, LAMBDA tr : tr[3] > 0)

\* df[df[col].isin(values)]
FilterIsin(t, col, values) ==
    [columns |-> t.columns,
     rows |-> SelectSeq(t.rows, LAMBDA r : r[col] \in Range(values))]

\* df[df[col] > threshold]
FilterGreater(t, col, threshold) ==
    [columns |-> t.columns,
     rows |-> SelectSeq(t.rows, LAMBDA r : r[col] > threshold)]

\* df.pivot_table(index=a, columns=b, aggfunc='size', fill_value=0): a
\* count matrix whose rows are the values of a and whose columns are the
\* values of b that occur in t, both sorted.
pivot_table(t, a, b) ==
    LET rows == KeyedRows(t, a, b)
        as == {rows[i][a] : i \in DOMAIN rows}
        bs == {rows[i][b] : i \in DOMAIN rows}
    IN  [index |-> SortedTexts(as),
         columns |-> SortedTexts(bs),
         z |-> [cell \in as \X bs |->
                   CountRows(rows, a, cell[1], b, cell[2])]]

\* pivot.reindex(columns=order, fill_value=fill)
reindex(p, order, fill) ==
    [index |-> p.index,
     columns |-> order,
     z |-> [cell \in Range(p.index) \X Range(order) |->
               IF cell[2] \in Range(p.columns) THEN p.z[cell] ELSE fill]]

\* ------------------------------------------------------------ load_data

\* What a cached function hands back: its return value and the elements
\* it drew while it ran, which st.cache_data stores and replays.
Returned(value, msgs) == [value |-> value, msgs |-> msgs]

\* The first load_data (lines 18-29).  ok: pd.read_csv returned csv;
\* otherwise it raised.
load_data_1(ok, csv) ==
    IF ok THEN Returned(csv, <<>>)
    ELSE Returned(EmptyDataFrame, <<"error:load">>)

\* Lines 122-132 of the second load_data: standardize the academic year
\* column name.
Standardize(t) ==
    IF COL_ACADEMIC_YEAR_RAW \in t.columns
    THEN Returned(Rename(t, COL_ACADEMIC_YEAR_RAW, COL_ACADEMIC_YEAR), <<>>)
    ELSE IF COL_ACADEMIC_YEAR_SPACE \in t.columns
    THEN Returned(Rename(t, COL_ACADEMIC_YEAR_SPACE, COL_ACADEMIC_YEAR), <<>>)
    ELSE Returned(EmptyDataFrame, <<"error:column">>)

\* The second load_data (lines 113-135).
load_data_2(ok, csv) ==
    IF ok THEN Standardize(csv)
    ELSE Returned(EmptyDataFrame, <<"error:load">>)

\* The test of line 34.
GenderPresent(t) == COL_GENDER \in t.columns

\* Line 147 with its second disjunct left out.
KeyColumnsMissing_emptyonly(t) == IsEmpty(t)

\* The test of line 147: df.empty or not all(col in df.columns ...).
KeyColumnsMissing(t) ==
    \/ IsEmpty(t)
    \/ ~ ({COL_SSC_GPA, COL_HSC_GPA, COL_GENDER, COL_ACADEMIC_YEAR}
             \subseteq t.columns)

\* reindex left out: the pivot as pivot_table returned it.
ReindexedPivot_noreindex(t) ==
    pivot_table(FilterGreater(t, COL_SSC_GPA, GPA_THRESHOLD),
                COL_GENDER, COL_ACADEMIC_YEAR)

\* Lines 253-264: performance_df, performance_pivot and its reindex.
ReindexedPivot(t) ==
    reindex(pivot_table(FilterGreater(t, COL_SSC_GPA, GPA_THRESHOLD),
                        COL_GENDER, COL_ACADEMIC_YEAR),
            ACADEMIC_ORDER, 0)

\* ---------------------------------------------------------------- inputs

SeqsUpTo(S, n) == UNION {[1..k -> S] : k \in 0..n}

\* 'Academic Year in EU'
ACADEMIC_YEAR_IN_EU == <<"Academic", " ", "Year", " ", "in", " ", "EU">>

\* The headers "Bachelor" + whitespace + "Academic Year in EU", and the
\* canonical key itself.
YearHeaders ==
    {<<"Bachelor">> \o w \o ACADEMIC_YEAR_IN_EU : w \in SeqsUpTo(Whitespace, MaxWs)}
        \cup {COL_ACADEMIC_YEAR}

GenderValues == {<<"Female">>, <<"Male">>, NaN}
YearValues ==
    {<<"1st", " ", "Year">>, <<"2nd", " ", "Year">>,
     <<" ", "1st", " ", "Year", "\t">>, NaN}
GpaValues == {300, 350}

\* A CSV row over the columns cols; every column outside the three the
\* aggregations read holds the year text when it is a year column, and a
\* fixed grade otherwise.
MakeRow(cols, g, y, s) ==
    [c \in cols |-> IF c = COL_GENDER THEN g
                    ELSE IF c = COL_SSC_GPA THEN s
                    ELSE IF c = COL_HSC_GPA THEN 400
                    ELSE y]

TablesOver(cols, G, Y, S) ==
    LET R == {MakeRow(cols, g, y, s) : g \in G, y \in Y, s \in S}
    IN  {[columns |-> cols, rows |-> r] : r \in SeqsUpTo(R, MaxRows)}

\* The CSV as the repository ships it: the four columns, the year header
\* with its tab, and every combination of cell values.
FullTables ==
    TablesOver({COL_GENDER, COL_SSC_GPA, COL_HSC_GPA, COL_ACADEMIC_YEAR_RAW},
               GenderValues, YearValues, GpaValues)

\* Every other schema: any subset of the key columns, with at most one
\* year column under any of the header variants; fewer cell values, since
\* what happens to these tables is decided by their headers.
Schemas ==
    {ks \cup ys : ks \in SUBSET {COL_GENDER, COL_SSC_GPA, COL_HSC_GPA},
                  ys \in {{}} \cup {{h} : h \in YearHeaders}} \ {{}}

SchemaTables ==
    UNION {TablesOver(cols, {<<"Female">>},
                      {<<"1st", " ", "Year">>, <<" ", "1st", " ", "Year", "\t">>},
                      {350}) : cols \in Schemas}

\* What the URL may hold.
Remotes == FullTables \cup SchemaTables

\* ----------------------------------------------------------------- state

VARIABLES
    remote,                \* the CSV at the URL
    strict,                \* the installed Streamlit rejects a second set_page_config
    cache1,                \* st.cache_data of the first load_data: <<>> or <<entry>>
    cache2,                \* st.cache_data of the second load_data
    pc,                    \* the line the render pass has reached
    df,                    \* the script's df
    gender_counts,
    academic_year_counts,
    grouped_data,
    filtered_df_box,
    performance_pivot,
    out,                   \* the elements drawn in this pass, in order
    fetches,               \* pd.read_csv calls of this pass
    fetchFailed,           \* a pd.read_csv call of this pass raised
    prevFailed             \* the pass before this one drew an error

vars == <<remote, strict, cache1, cache2, pc, df, gender_counts,
          academic_year_counts, grouped_data, filtered_df_box,
          performance_pivot, out, fetches, fetchFailed, prevFailed>>

aggregates == <<gender_counts, academic_year_counts, grouped_data,
                filtered_df_box, performance_pivot>>
session == <<remote, strict, prevFailed>>
caches == <<cache1, cache2>>
history == <<fetches, fetchFailed>>

NoPivot == [index |-> <<>>, columns |-> <<>>, z |-> <<>>]

Charts == {"chart:pie", "chart:bar", "chart:scatter", "chart:donut",
           "chart:grouped_bar", "chart:box", "chart:heatmap"}
Errors == {"error:load", "error:column"}

\* Positions at which a pass is over: the script ran to its end, st.stop()
\* ended it, or an exception did.
Ended == {"done", "stopped", "raised"}

\* The namespace of a pass that has not run a line yet.
FreshPass ==
    /\ pc = "L5"
    /\ df = EmptyDataFrame
    /\ gender_counts = <<>>
    /\ academic_year_counts = <<>>
    /\ grouped_data = <<>>
    /\ filtered_df_box = EmptyDataFrame
    /\ performance_pivot = NoPivot
    /\ out = <<>>
    /\ fetches = 0
    /\ fetchFailed = FALSE

Init ==
    /\ remote \in Remotes
    /\ strict \in BOOLEAN
    /\ cache1 = <<>>
    /\ cache2 = <<>>
    /\ prevFailed = FALSE
    /\ FreshPass

\* Lines 5-15: set_page_config, header, and set_page_config again, which
\* a Streamlit that allows one call per page answers with an exception.
PageConfig ==
    /\ pc = "L5"
    /\ IF strict
       THEN /\ pc' = "raised"
            /\ out' = Append(out, "exception")
       ELSE /\ pc' = "L31"
            /\ out' = out
    /\ UNCHANGED <<session, caches, df, aggregates, history>>

\* Line 31, df = load_data(), with nothing cached: the body runs, and what
\* it returned and drew is cached.
LoadData1Miss ==
    /\ pc = "L31"
    /\ cache1 = <<>>
    /\ \E ok \in BOOLEAN :
         LET r == load_data_1(ok, remote)
         IN  /\ cache1' = <<r>>
             /\ df' = r.value
             /\ out' = out \o r.msgs
             /\ fetchFailed' = (fetchFailed \/ ~ok)
    /\ fetches' = fetches + 1
    /\ pc' = "L34"
    /\ UNCHANGED <<session, cache2, aggregates>>

\* Line 31 with a cached entry: the body is skipped, the entry's value is
\* returned and its elements are drawn again.
LoadData1Hit ==
    /\ pc = "L31"
    /\ cache1 # <<>>
    /\ df' = cache1[1].value
    /\ out' = out \o cache1[1].msgs
    /\ pc' = "L34"
    /\ UNCHANGED <<session, caches, aggregates, history>>

\* Lines 34-40: the gender tabulation, or a warning and st.stop().
GenderCounts ==
    /\ pc = "L34"
    /\ IF GenderPresent(df)
       THEN /\ gender_counts' = value_counts(Column(df, COL_GENDER))
            /\ out' = out
            /\ pc' = "L43"
       ELSE /\ gender_counts' = gender_counts
            /\ out' = Append(out, "warning")
            /\ pc' = "stopped"
    /\ UNCHANGED <<session, caches, df, academic_year_counts, grouped_data,
                   filtered_df_box, performance_pivot, history>>

\* Lines 43-49: the title and st.dataframe(df.head()).
RawDataHead ==
    /\ pc = "L43"
    /\ out' = out \o <<"title", "dataframe">>
    /\ pc' = "L52"
    /\ UNCHANGED <<session, caches, df, aggregates, history>>

\* Lines 52-93: the pie chart and the bar chart of gender_counts.
GenderCharts ==
    /\ pc = "L52"
    /\ out' = out \o <<"chart:pie", "chart:bar">>
    /\ pc' = "L137"
    /\ UNCHANGED <<session, caches, df, aggregates, history>>

\* Line 137, df = load_data() of the second load_data, nothing cached.
LoadData2Miss ==
    /\ pc = "L137"
    /\ cache2 = <<>>
    /\ \E ok \in BOOLEAN :
         LET r == load_data_2(ok, remote)
         IN  /\ cache2' = <<r>>
             /\ df' = r.value
             /\ out' = out \o r.msgs
             /\ fetchFailed' = (fetchFailed \/ ~ok)
    /\ fetches' = fetches + 1
    /\ pc' = "L140"
    /\ UNCHANGED <<session, cache1, aggregates>>

\* Line 137 with a cached entry.
LoadData2Hit ==
    /\ pc = "L137"
    /\ cache2 # <<>>
    /\ df' = cache2[1].value
    /\ out' = out \o cache2[1].msgs
    /\ pc' = "L140"
    /\ UNCHANGED <<session, caches, aggregates, history>>

\* Lines 140-153: the title, the check of the key columns with its
\* warning and st.stop(), and the data preview.
CheckKeyColumns ==
    /\ pc = "L140"
    /\ IF KeyColumnsMissing(df)
       THEN /\ out' = out \o <<"title", "warning">>
            /\ pc' = "stopped"
       ELSE /\ out' = out \o <<"title", "dataframe">>
            /\ pc' = "L160"
    /\ UNCHANGED <<session, caches, df, aggregates, history>>

\* What a step does when a column it reads is absent: pandas raises
\* KeyError and the pass ends.
KeyErrorRaised ==
    /\ out' = Append(out, "KeyError")
    /\ pc' = "raised"

\* Lines 160-174: the scatter plot of the two GPA columns by gender.
Scatter ==
    /\ pc = "L160"
    /\ IF {COL_SSC_GPA, COL_HSC_GPA, COL_GENDER} \subseteq df.columns
       THEN /\ out' = Append(out, "chart:scatter")
            /\ pc' = "L177"
       ELSE KeyErrorRaised
    /\ UNCHANGED <<session, caches, df, aggregates, history>>

\* Lines 177-194: the academic-year tabulation and its donut chart.
AcademicYearCounts ==
    /\ pc = "L177"
    /\ IF COL_ACADEMIC_YEAR \in df.columns
       THEN /\ academic_year_counts' =
                   value_counts(Column(df, COL_ACADEMIC_YEAR))
            /\ out' = Append(out, "chart:donut")
            /\ pc' = "L205"
       ELSE /\ academic_year_counts' = academic_year_counts
            /\ KeyErrorRaised
    /\ UNCHANGED <<session, caches, df, gender_counts, grouped_data,
                   filtered_df_box, performance_pivot, history>>

\* Lines 205-224: the gender x year grouped count and its bar chart.
GroupedData ==
    /\ pc = "L205"
    /\ IF {COL_GENDER, COL_ACADEMIC_YEAR} \subseteq df.columns
       THEN /\ grouped_data' = groupby_size(df, COL_GENDER, COL_ACADEMIC_YEAR)
            /\ out' = Append(out, "chart:grouped_bar")
            /\ pc' = "L227"
       ELSE /\ grouped_data' = grouped_data
            /\ KeyErrorRaised
    /\ UNCHANGED <<session, caches, df, gender_counts, academic_year_counts,
                   filtered_df_box, performance_pivot, history>>

\* Lines 227-244: the rows of the declared years and their box plot.
BoxPlot ==
    /\ pc = "L227"
    /\ IF {COL_ACADEMIC_YEAR, COL_SSC_GPA} \subseteq df.columns
       THEN /\ filtered_df_box' =
                   FilterIsin(df, COL_ACADEMIC_YEAR, ACADEMIC_ORDER)
            /\ out' = Append(out, "chart:box")
            /\ pc' = "L249"
       ELSE /\ filtered_df_box' = filtered_df_box
            /\ KeyErrorRaised
    /\ UNCHANGED <<session, caches, df, gender_counts, academic_year_counts,
                   grouped_data, performance_pivot, history>>

\* Lines 249-292: the pivot of the rows with S.S.C GPA > 3.00 and its
\* heatmap; the script ends.
Heatmap ==
    /\ pc = "L249"
    /\ IF {COL_SSC_GPA, COL_GENDER, COL_ACADEMIC_YEAR} \subseteq df.columns
       THEN /\ performance_pivot' = ReindexedPivot(df)
            /\ out' = Append(out, "chart:heatmap")
            /\ pc' = "done"
       ELSE /\ performance_pivot' = performance_pivot
            /\ KeyErrorRaised
    /\ UNCHANGED <<session, caches, df, gender_counts, academic_year_counts,
                   grouped_data, filtered_df_box, history>>

\* The user interacts or reloads: Streamlit runs the script again from the
\* top in a fresh namespace.  The caches outlive the pass.
Rerun ==
    /\ pc \in Ended
    /\ prevFailed' = (Range(out) \cap Errors # {})
    /\ pc' = "L5"
    /\ df' = EmptyDataFrame
    /\ gender_counts' = <<>>
    /\ academic_year_counts' = <<>>
    /\ grouped_data' = <<>>
    /\ filtered_df_box' = EmptyDataFrame
    /\ performance_pivot' = NoPivot
    /\ out' = <<>>
    /\ fetches' = 0
    /\ fetchFailed' = FALSE
    /\ UNCHANGED <<remote, strict, caches>>

\* The user picks "Clear cache" between two passes.
ClearCache ==
    /\ pc \in Ended
    /\ cache1 # <<>> \/ cache2 # <<>>
    /\ cache1' = <<>>
    /\ cache2' = <<>>
    /\ UNCHANGED <<session, pc, df, aggregates, out, history>>

Next ==
    \/ PageConfig
    \/ LoadData1Miss
    \/ LoadData1Hit
    \/ GenderCounts
    \/ RawDataHead
    \/ GenderCharts
    \/ LoadData2Miss
    \/ LoadData2Hit
    \/ CheckKeyColumns
    \/ Scatter
    \/ AcademicYearCounts
    \/ GroupedData
    \/ BoxPlot
    \/ Heatmap
    \/ Rerun
    \/ ClearCache

Spec == Init /\ [][Next]_vars

\* ------------------------------------------------------ claim vocabulary

\* sub occurs in text as a run of consecutive tokens.
ContainsText(text, sub) ==
    \E i \in 0..(Len(text) - Len(sub)) :
        SubSeq(text, i + 1, i + Len(sub)) = sub

\* No leading and no trailing whitespace character.
Trimmed(v) == v = <<>> \/ (Head(v) \notin Whitespace /\ v[Len(v)] \notin Whitespace)

\* The table has a column whose header contains 'Academic Year in EU'.
HasYearInEuHeader(t) ==
    \E c \in t.columns : ContainsText(c, ACADEMIC_YEAR_IN_EU)

\* The table has no academic-year column under any name.
NoYearColumn(t) ==
    \A c \in t.columns : ~ ContainsText(c, COL_ACADEMIC_YEAR)

Drawn == Range(out)

\* The pass is past line 34 with 'Gender' found, and df is still the first
\* load_data's table.
AfterGenderCheck == pc \in {"L43", "L52", "L137"}

\* The pass is past the check of line 147.
AfterKeyColumnCheck == pc \in {"L160", "L177", "L205", "L227", "L249", "done"}

\* The second load_data has returned in this pass and pd.read_csv did not
\* fail for the entry it returned.
Loaded2 == pc = "L140" /\ cache2 # <<>> /\ "error:load" \notin Range(cache2[1].msgs)

RECURSIVE SumCounts(_)
SumCounts(pairs) ==
    IF pairs = <<>> THEN 0 ELSE Head(pairs)[2] + SumCounts(Tail(pairs))

\* The rows of t with S.S.C GPA > 3.00.
Qualifying(t) == {i \in DOMAIN t.rows : t.rows[i][COL_SSC_GPA] > GPA_THRESHOLD}

\* counts tabulates the column s: every distinct non-null value once, the
\* counts summing to the number of non-null cells.
Tabulates(counts, s) ==
    /\ \A i, j \in DOMAIN counts : counts[i][1] = counts[j][1] => i = j
    /\ {counts[i][1] : i \in DOMAIN counts} = Range(s) \ {NaN}
    /\ \A i \in DOMAIN counts :
           counts[i][2] = Cardinality({k \in DOMAIN s : s[k] = counts[i][1]})
    /\ SumCounts(counts) = Cardinality({k \in DOMAIN s : s[k] # NaN})

\* ---------------------------------------------------------------- claims

\* C1: when pd.read_csv fails, load_data returns an empty table, draws an
\* error and lets no exception escape, and the pass ends at st.stop() with
\* no chart and no data preview drawn in it.
C1_FetchFailureHaltsBeforeAnyChart ==
    (pc \in Ended /\ fetchFailed) =>
        /\ "error:load" \in Drawn
        /\ df = EmptyDataFrame
        /\ pc = "stopped"
        /\ Drawn \cap (Charts \cup {"dataframe"}) = {}

\* What does hold of a failed fetch: the error is drawn, the table is
\* empty, the pass ends at st.stop(), and no chart or preview is drawn
\* after the error.
FetchFailureHaltsFurtherRendering ==
    /\ (pc \in Ended /\ fetchFailed) =>
           "error:load" \in Drawn /\ df = EmptyDataFrame /\ pc = "stopped"
    /\ \A i, j \in DOMAIN out :
           (out[i] \in Errors /\ i < j) => out[j] \notin Charts \cup {"dataframe"}

\* C2: when the fetched table has no academic-year column, the pass draws
\* the missing-column error and ends with no chart drawn in it, before or
\* after the error.
C2_MissingColumnNoPartialOutput ==
    (pc \in Ended /\ NoYearColumn(remote) /\ "error:column" \in Drawn) =>
        /\ pc = "stopped"
        /\ Drawn \cap Charts = {}

\* C3: a fetched table with a header that contains 'Academic Year in EU'
\* comes out of load_data with that column named 'Academic Year' and no
\* missing-column error.
C3_SubstringHeaderRenamed ==
    (Loaded2 /\ HasYearInEuHeader(remote)) =>
        /\ COL_ACADEMIC_YEAR \in df.columns
        /\ "error:column" \notin Drawn

\* C4: past the key-column check every value of df['Academic Year'] is
\* free of leading and trailing whitespace.
C4_YearValuesTrimmed ==
    AfterKeyColumnCheck =>
        \A i \in DOMAIN df.rows : Trimmed(df.rows[i][COL_ACADEMIC_YEAR])

\* C5: at the end of the script performance_pivot has exactly the columns
\* of ACADEMIC_ORDER in that order, every cell is the number of rows with
\* S.S.C GPA > 3.00 of its gender and year, and so is 0 throughout a
\* column with no such row.
C5_PivotColumnsFixed ==
    pc = "done" =>
        /\ performance_pivot.columns = ACADEMIC_ORDER
        /\ DOMAIN performance_pivot.z =
               Range(performance_pivot.index) \X Range(ACADEMIC_ORDER)
        /\ \A cell \in DOMAIN performance_pivot.z :
               performance_pivot.z[cell] =
                   Cardinality({i \in Qualifying(df) :
                                   /\ df.rows[i][COL_GENDER] = cell[1]
                                   /\ df.rows[i][COL_ACADEMIC_YEAR] = cell[2]})

\* A finished pass over a table whose first row is a 2nd-year and whose
\* second row has a year outside ACADEMIC_ORDER, both with GPA > 3.00: the
\* pivot has a non-zero cell and no column for the outside year.
C5_Witness ==
    /\ pc = "done"
    /\ Len(df.rows) = 2
    /\ Qualifying(df) = {1, 2}
    /\ df.rows[1][COL_ACADEMIC_YEAR] = ACADEMIC_ORDER[2]
    /\ df.rows[2][COL_ACADEMIC_YEAR] \notin Range(ACADEMIC_ORDER) \cup {NaN}
    /\ df.rows[1][COL_GENDER] # NaN
    /\ df.rows[2][COL_GENDER] # NaN
    /\ performance_pivot.z[<<df.rows[1][COL_GENDER], ACADEMIC_ORDER[2]>>] = 1

\* C6: in a pass that follows a pass which drew a load or missing-column
\* error, load_data fetches again instead of returning the remembered
\* empty table.
C6_FailedPassLeavesNothingBehind ==
    (prevFailed /\ pc \notin {"L5", "L31"}) => fetches > 0

\* C7: a fetched table whose academic-year column is already named
\* 'Academic Year' comes out of load_data unchanged and with no error.
C7_NormalizationIdempotent ==
    (Loaded2 /\ COL_ACADEMIC_YEAR \in remote.columns) =>
        /\ df = remote
        /\ Drawn \cap Errors = {}

\* C8: when no row has S.S.C GPA > 3.00 the pivot is an all-zero matrix
\* with one row per distinct Gender value of df and four columns.
C8_EmptySelectionZeroMatrix ==
    (pc = "done" /\ Qualifying(df) = {}) =>
        /\ Len(performance_pivot.index) =
               Cardinality(Range(Column(df, COL_GENDER)) \ {NaN})
        /\ Len(performance_pivot.columns) = Len(ACADEMIC_ORDER)
        /\ \A cell \in DOMAIN performance_pivot.z : performance_pivot.z[cell] = 0

\* C9: gender_counts and academic_year_counts list every distinct
\* non-null value of their column once, with counts that sum to the
\* number of rows whose value is non-null.
C9_TabulationCounts ==
    /\ AfterGenderCheck =>
           Tabulates(gender_counts, Column(df, COL_GENDER))
    /\ pc \in {"L205", "L227", "L249", "done"} =>
           Tabulates(academic_year_counts, Column(df, COL_ACADEMIC_YEAR))

\* The gender tabulation of a two-row table with one NaN gender.
C9_Witness ==
    /\ pc = "L43"
    /\ Len(df.rows) = 2
    /\ df.rows[1][COL_GENDER] = NaN
    /\ df.rows[2][COL_GENDER] # NaN
    /\ gender_counts = << <<df.rows[2][COL_GENDER], 1>> >>

\* C10: no step reads a column its table lacks: past line 34 df has
\* 'Gender', past line 147 it has the four key columns, and no pass ends
\* in a KeyError.
C10_AggregationsGuarded ==
    /\ "KeyError" \notin Drawn
    /\ AfterGenderCheck => COL_GENDER \in df.columns
    /\ AfterKeyColumnCheck =>
           {COL_SSC_GPA, COL_HSC_GPA, COL_GENDER, COL_ACADEMIC_YEAR}
               \subseteq df.columns

\* A pass stopped at line 149 over a table that was fetched and renamed
\* and has rows, but lacks 'S.S.C (GPA)'.
C10_Witness ==
    /\ pc = "stopped"
    /\ df.rows # <<>>
    /\ COL_ACADEMIC_YEAR \in df.columns
    /\ COL_SSC_GPA \notin df.columns

====
